---- MODULE Spec2Model ----
(***************************************************************************)
(* ForwardingListener of locust_plugins/backend_base.py: producers put      *)
(* result messages on forwarder_queue, run() pops them one at a time and    *)
(* hands each to every adapter of the backends set.                         *)
(***************************************************************************)
EXTENDS Integers, Sequences, FiniteSets, TLC

\* ------------------------------------------------------------------ bounds
MaxAdmit == 2     \* number of messages the producers put on the queue
MaxRegOps == 3    \* number of add_backend / remove_backend calls

\* ------------------------------------------------------- program constants
maxsize == 0      \* Queue(): maxsize defaults to 0, which means no limit

\* ------------------------------------------------------------ adapters
\* Adapter objects: two instances of PrintAdapter, one ElasticSearchAdapter.
Adapters == {"print1", "print2", "es1"}

type(a) == IF a \in {"print1", "print2"} THEN "PrintAdapter" ELSE "ElasticSearchAdapter"

\* BackendAdapter.id: f"{type(self)}"
id(a) == type(a)

\* BackendAdapter.__hash__: hash(self.id())
hash(a) == id(a)

\* BackendAdapter defines no __eq__: object.__eq__ compares object identity.
eq(a, b) == a = b

\* ----------------------------------------------------------- the set type
\* self.backends is a hash table; iteration walks its slots in index order.
\* One slot per adapter object: every relative order of the adapters is a table.
NoKey == "NoKey"
Slots == 1..Cardinality(Adapters)

EmptySet == [i \in Slots |-> NoKey]

Keys(t) == {t[i] : i \in Slots} \ {NoKey}

used(t) == Cardinality({i \in Slots : t[i] # NoKey})

\* key lookup of a set: same hash and equal
set_contains(t, x) == \E i \in Slots : t[i] # NoKey /\ hash(t[i]) = hash(x) /\ eq(t[i], x)

\* set.add: the tables reachable from t by adding x (the slot depends on the
\* process's string hash seed and on the collisions; any free slot)
set_add(t, x) ==
  IF set_contains(t, x) THEN {t}
  ELSE {[t EXCEPT ![i] = x] : i \in {j \in Slots : t[j] = NoKey}}

\* set.remove of a key that is present: its slot is vacated
set_remove(t, x) == [i \in Slots |-> IF t[i] # NoKey /\ eq(t[i], x) THEN NoKey ELSE t[i]]

\* setiter.__next__: first occupied slot at or after pos, 0 when exhausted
NextSlot(t, pos) ==
  IF \E i \in Slots : i >= pos /\ t[i] # NoKey
  THEN CHOOSE i \in Slots : i >= pos /\ t[i] # NoKey
                            /\ \A j \in Slots : (j >= pos /\ j < i) => t[j] = NoKey
  ELSE 0

\* ------------------------------------------------------------- messages
NoData == [type |-> "none"]
NoErr == "none"

\* Templates: the conversion specifiers in order; quoted ones sit inside "..."
OK_TEMPLATE == << [key |-> "request_type", quoted |-> TRUE],
                  [key |-> "name", quoted |-> TRUE],
                  [key |-> "response_time", quoted |-> FALSE],
                  [key |-> "response_length", quoted |-> FALSE],
                  [key |-> "other", quoted |-> FALSE] >>

ERR_TEMPLATE == << [key |-> "request_type", quoted |-> TRUE],
                   [key |-> "name", quoted |-> TRUE],
                   [key |-> "response_time", quoted |-> FALSE],
                   [key |-> "exception", quoted |-> TRUE],
                   [key |-> "other", quoted |-> FALSE] >>

\* the values that are JSON text on their own (numbers, json.dumps output)
JsonValues == {"120", "512", "{}"}

\* template % args: TypeError unless there is one argument per specifier
FormatRaises(template, args) == Len(args) # Len(template)

\* json.loads of the formatted string: fails when an unquoted value is no JSON
LoadsRaises(template, args) ==
  \E i \in 1..Len(template) : ~template[i].quoted /\ args[i] \notin JsonValues

\* the payload json.loads returns: one entry per key of the template
Payload(template, args) ==
  [k \in {template[i].key : i \in 1..Len(template)} |->
     args[CHOOSE i \in 1..Len(template) : template[i].key = k]]

\* request_success, line 30: the arguments handed to OK_TEMPLATE
SuccessArgs(request_type, name, response_time, response_length, kwargs) ==
  <<request_type, name, response_time, response_length, kwargs>>

\* request_failure, line 39: the arguments handed to ERR_TEMPLATE, six for
\* its five specifiers
FailureArgs(request_type, name, response_time, exception, kwargs) ==
  <<request_type, name, "ERR", response_time, exception, kwargs>>

\* lines 30-31 and 39-40: the exception raised while building the message,
\* or none
BuildRaises(template, args) ==
  IF FormatRaises(template, args) THEN "TypeError"
  ELSE IF LoadsRaises(template, args) THEN "JSONDecodeError"
  ELSE NoErr

\* ---------------------------------------------------------------- state
VARIABLES
  backends,         \* self.backends, as its hash table
  quit,             \* self.quit
  forwarder_queue,  \* self.forwarder_queue
  pc,               \* where run() is: idle, while, get, for, done, crashed
  data,             \* run(): the message popped last
  si_used,          \* the for loop's set iterator: size at creation
  si_pos,           \* the for loop's set iterator: next slot to look at
  snap,             \* history: the adapters registered when the for loop's
                    \*   iterator was created; {} outside a cycle
  run_exc,          \* the exception that ended run(), if any
  raised,           \* the exception the last call of a caller raised, if any
  admitted,         \* history: the messages put on the queue, in order
  dequeued,         \* history: number of messages run() has popped
  received,         \* history: per adapter, the handler calls made on it
  reg_ops,          \* history: number of add_backend / remove_backend calls
  early,            \* history: adapters registered before the first message
                    \*   was put and registered ever since
  quit_mark,        \* history: number of messages put when quit was set
  quit_at           \* history: where run() was when quit was set (idle: not
                    \*   started, get: waiting in get, busy: elsewhere), and
                    \*   how many messages it has popped since then

vars == <<backends, quit, forwarder_queue, pc, data, si_used, si_pos, snap, run_exc,
          raised, admitted, dequeued, received, reg_ops, early, quit_mark, quit_at>>

runVars == <<pc, data, si_used, si_pos, snap, run_exc, dequeued, received>>

\* quit has not been set
NotYet == [pc |-> "none", late |-> 0]

\* ForwardingListener.__init__
Init ==
  /\ backends = EmptySet
  /\ quit = FALSE
  /\ forwarder_queue = <<>>
  /\ pc = "idle"
  /\ data = NoData
  /\ si_used = 0
  /\ si_pos = 0
  /\ snap = {}
  /\ run_exc = NoErr
  /\ raised = NoErr
  /\ admitted = <<>>
  /\ dequeued = 0
  /\ reg_ops = 0
  /\ early = {}
  /\ quit_mark = 0
  /\ quit_at = NotYet
  /\ received = [a \in Adapters |-> <<>>]

\* ------------------------------------------------------------ registry
\* add_backend, lines 19-21
add_backend(a) ==
  /\ reg_ops < MaxRegOps
  /\ reg_ops' = reg_ops + 1
  /\ backends' \in set_add(backends, a)
  /\ raised' = NoErr
  /\ early' = IF admitted = <<>> THEN early \cup {a} ELSE early
  /\ UNCHANGED <<quit, forwarder_queue, admitted, quit_mark, quit_at>>
  /\ UNCHANGED runVars

\* set.remove raises KeyError for a key that is not in the set
remove_raises(t, x) == IF set_contains(t, x) THEN NoErr ELSE "KeyError"

\* remove_backend, lines 23-25
remove_backend(a) ==
  /\ reg_ops < MaxRegOps
  /\ reg_ops' = reg_ops + 1
  /\ backends' = IF remove_raises(backends, a) = NoErr
                 THEN set_remove(backends, a) ELSE backends
  /\ raised' = remove_raises(backends, a)
  /\ early' = early \ {a}
  /\ UNCHANGED <<quit, forwarder_queue, admitted, quit_mark, quit_at>>
  /\ UNCHANGED runVars

\* a queue built as Queue(1): a put waits while one item is queued
put_blocks_bounded(q) == Len(q) >= 1

\* ------------------------------------------------------------ producers
\* Queue.put blocks only when maxsize > 0 and the queue holds maxsize items
put_blocks(q) == maxsize > 0 /\ Len(q) >= maxsize

\* a put that drops the item without a word when one is already waiting
put_dropping(q, item) == IF Len(q) >= 1 THEN q ELSE Append(q, item)

\* Queue.put on a queue with room: the item goes to the tail
put(q, item) == Append(q, item)

\* add, lines 45-52; the message object gets its identity when it is built
add(msg) ==
  /\ Len(admitted) < MaxAdmit
  /\ ~put_blocks(forwarder_queue)
  /\ LET m == [type |-> msg.type, payload |-> msg.payload, oid |-> Len(admitted) + 1]
     IN /\ forwarder_queue' = put(forwarder_queue, m)
        /\ admitted' = Append(admitted, m)
  /\ raised' = NoErr
  /\ UNCHANGED <<backends, quit, reg_ops, early, quit_mark, quit_at>>
  /\ UNCHANGED runVars

\* a caller's call failed before anything was queued
CallRaises(e) ==
  /\ raised' = e
  /\ UNCHANGED <<backends, quit, forwarder_queue, admitted, reg_ops, early, quit_mark, quit_at>>
  /\ UNCHANGED runVars

\* request_success, lines 27-34
request_success(request_type, name, response_time, response_length, kwargs) ==
  LET args == SuccessArgs(request_type, name, response_time, response_length, kwargs)
      e == BuildRaises(OK_TEMPLATE, args)
  IN IF e # NoErr THEN CallRaises(e)
     ELSE add([type |-> "success", payload |-> Payload(OK_TEMPLATE, args)])

\* request_failure, lines 36-43
request_failure(request_type, name, response_time, exception, kwargs) ==
  LET args == FailureArgs(request_type, name, response_time, exception, kwargs)
      e == BuildRaises(ERR_TEMPLATE, args)
  IN IF e # NoErr THEN CallRaises(e)
     ELSE add([type |-> "failure", payload |-> Payload(ERR_TEMPLATE, args)])

\* the arguments the hooks are called with
RequestTypes == {"POST"}
Names == {"/login"}
ResponseTimes == {"120"}
ResponseLengths == {"512"}
Exceptions == {"timeout"}
Kwargs == {"{}"}

\* messages a caller hands to add() itself: one of each kind, with the fields
\* of its kind
DirectData ==
  { [type |-> "success",
     payload |-> [request_type |-> "POST", name |-> "/login", response_time |-> "120",
                  response_length |-> "512", other |-> "{}"]],
    [type |-> "failure",
     payload |-> [request_type |-> "POST", name |-> "/login", response_time |-> "120",
                  exception |-> "timeout", other |-> "{}"]] }

\* ------------------------------------------------------------- handlers
\* PrintAdapter.request_success's required parameters
PrintRequired == {"request_type", "name", "response_time", "response_length"}

\* What a handler call can do: return (NoErr) or raise.
\*  PrintAdapter: handle_success and handle_failure both call
\*    self.request_success(**data), a TypeError when a required key is missing;
\*  ElasticSearchAdapter: send() calls es.index, which raises when the store
\*    cannot be reached or rejects the document.
HandlerOutcomes(a, h, payload) ==
  IF type(a) = "PrintAdapter"
  THEN IF PrintRequired \subseteq DOMAIN payload THEN {NoErr} ELSE {"TypeError"}
  ELSE {NoErr, "ConnectionError"}

\* --------------------------------------- ElasticSearchAdapter.__init__
\* the store as the probe finds it: reachable, unreachable, or answering
\* with an error
StoreStates == {"up", "down", "error"}

\* line 126: self.es.cluster.health(): what it raises, if anything
health(store) ==
  IF store = "up" THEN NoErr
  ELSE IF store = "down" THEN "ConnectionError"
  ELSE "TransportError"

\* a constructor that catches ConnectionError only: any other exception of
\* the probe leaves it as it is
init_raises_narrow(verify_connection, store) ==
  IF ~verify_connection THEN NoErr
  ELSE IF health(store) = "ConnectionError" THEN "AdapterError"
  ELSE health(store)

\* lines 119-134: what the constructor raises, if anything
init_raises(verify_connection, store) ==
  IF ~verify_connection THEN NoErr
  ELSE IF health(store) = NoErr THEN NoErr
  ELSE IF health(store) = "ConnectionError"
       THEN "AdapterError"     \* except exceptions.ConnectionError
       ELSE "AdapterError"     \* bare except

\* ElasticSearchAdapter(..., verify_connection) is called
ElasticSearchAdapter_init(verify_connection, store) ==
  /\ raised' = init_raises(verify_connection, store)
  /\ UNCHANGED <<backends, quit, forwarder_queue, admitted, reg_ops, early, quit_mark, quit_at>>
  /\ UNCHANGED runVars

\* a run() that hands every message to handle_success
Handler_success_only(msg) == "handle_success"

\* lines 65-68: the handler run() picks for a message
Handler(msg) == IF msg.type = "failure" THEN "handle_failure" ELSE "handle_success"

\* ------------------------------------------------------------------ run
\* run() is called
Start ==
  /\ pc = "idle"
  /\ pc' = "while"
  /\ UNCHANGED <<backends, quit, forwarder_queue, data, si_used, si_pos, snap, run_exc,
                 raised, admitted, dequeued, received, reg_ops, early, quit_mark, quit_at>>

\* a loop that does not look at quit
loop_forever(q) == TRUE

\* line 61: while not self.quit
loop_continues(q) == ~q

WhileTest ==
  /\ pc = "while"
  /\ pc' = IF loop_continues(quit) THEN "get" ELSE "done"
  /\ UNCHANGED <<backends, quit, forwarder_queue, data, si_used, si_pos, snap, run_exc,
                 raised, admitted, dequeued, received, reg_ops, early, quit_mark, quit_at>>

\* line 62: data = self.forwarder_queue.get(), blocking while the queue is empty
Get ==
  /\ pc = "get"
  /\ forwarder_queue # <<>>
  /\ data' = Head(forwarder_queue)
  /\ forwarder_queue' = Tail(forwarder_queue)
  /\ dequeued' = dequeued + 1
  /\ si_used' = 0
  /\ si_pos' = 0
  /\ pc' = "for"
  /\ quit_at' = IF quit THEN [quit_at EXCEPT !.late = @ + 1] ELSE quit_at
  /\ UNCHANGED <<backends, quit, snap, run_exc, raised, admitted, received, reg_ops,
                 early, quit_mark>>

\* the exception ends run()
Crash(e) ==
  /\ pc' = "crashed"
  /\ run_exc' = e

\* line 63: the adapters registered when the for loop's iterator was created
\* (it is created by the first round, si_pos = 0)
SnapNow == IF si_pos = 0 THEN Keys(backends) ELSE snap

\* lines 63-68: one round of the for loop: the iterator's next(), then the
\* handler call on the adapter it yields. The first round creates the iterator
\* (si_pos = 0: not created yet), which notes the size of the set.
ForNext ==
  /\ pc = "for"
  /\ LET size == IF si_pos = 0 THEN used(backends) ELSE si_used
         pos == IF si_pos = 0 THEN 1 ELSE si_pos
         i == NextSlot(backends, pos)
     IN IF used(backends) # size
        THEN \* RuntimeError: Set changed size during iteration
             /\ Crash("RuntimeError")
             /\ snap' = {}
             /\ UNCHANGED <<si_used, si_pos, received>>
        ELSE IF i = 0
        THEN \* StopIteration: back to the loop test
             /\ pc' = "while"
             /\ si_used' = 0
             /\ si_pos' = 0
             /\ snap' = {}
             /\ UNCHANGED <<run_exc, received>>
        ELSE \E o \in HandlerOutcomes(backends[i], Handler(data), data.payload) :
               /\ received' = [received EXCEPT ![backends[i]] =
                     Append(@, [handler |-> Handler(data), oid |-> data.oid, exc |-> o])]
               /\ si_pos' = i + 1
               /\ si_used' = size
               /\ IF o = NoErr
                  THEN snap' = SnapNow /\ UNCHANGED <<pc, run_exc>>
                  ELSE snap' = {} /\ Crash(o)
  /\ UNCHANGED <<backends, quit, forwarder_queue, data, raised, admitted, dequeued,
                 reg_ops, early, quit_mark, quit_at>>

\* the owner sets listener.quit = True
Shutdown ==
  /\ ~quit
  /\ quit' = TRUE
  /\ quit_mark' = Len(admitted)
  /\ quit_at' = [pc |-> IF pc \in {"idle", "get"} THEN pc ELSE "busy", late |-> 0]
  /\ UNCHANGED <<backends, forwarder_queue, raised, admitted, reg_ops, early>>
  /\ UNCHANGED runVars

Next ==
  \/ \E a \in Adapters : add_backend(a)
  \/ \E a \in Adapters : remove_backend(a)
  \/ \E d \in DirectData : add(d)
  \/ \E rt \in RequestTypes, n \in Names, t \in ResponseTimes, l \in ResponseLengths,
        k \in Kwargs : request_success(rt, n, t, l, k)
  \/ \E rt \in RequestTypes, n \in Names, t \in ResponseTimes, x \in Exceptions,
        k \in Kwargs : request_failure(rt, n, t, x, k)
  \/ Shutdown
  \/ Start
  \/ WhileTest
  \/ Get
  \/ ForNext

Spec == Init /\ [][Next]_vars

\* Setting the listener up: adapters are constructed, registered and
\* unregistered; nothing is queued or dispatched yet.
SetupNext ==
  \/ \E v \in BOOLEAN, s \in StoreStates : ElasticSearchAdapter_init(v, s)
  \/ \E a \in Adapters : add_backend(a)
  \/ \E a \in Adapters : remove_backend(a)

SetupSpec == Init /\ [][SetupNext]_vars

\* run() is a thread of its own: once started it keeps being scheduled
FairSpec == Spec /\ WF_vars(WhileTest) /\ WF_vars(Get) /\ WF_vars(ForNext)

\* ------------------------------------------------------------ properties
\* the handler calls made on adapter a, as (handler, message) pairs in order
Calls(a) == [i \in 1..Len(received[a]) |-> <<received[a][i].handler, received[a][i].oid>>]

\* the calls an adapter is due: one per message put, by its kind, in queue order
Expected == [i \in 1..Len(admitted) |-> <<Handler(admitted[i]), admitted[i].oid>>]

\* nothing is queued and no dispatch cycle is under way
Quiescent == forwarder_queue = <<>> /\ pc # "for"

\* exceptions that come out of a handler
HandlerErrors == {"TypeError", "ConnectionError"}

\* adapter b's handler returns normally on every message put so far
AlwaysSucceeds(b) ==
  \A i \in 1..Len(admitted) :
    HandlerOutcomes(b, Handler(admitted[i]), admitted[i].payload) = {NoErr}

\* the cycle of the k-th message has run to its end
Dispatched(k) == dequeued > k \/ (dequeued = k /\ pc \in {"while", "get", "done"})

\* C1: once nothing is queued or in dispatch, every adapter registered since
\* before the first message was put has been called exactly once per message
\* put, through the handler of the message's kind, in the order of putting.
C1_OrderPreserved == Quiescent => \A a \in early : Calls(a) = Expected

\* C2: no exception of a handler ends run(), and once nothing is queued or in
\* dispatch every registered adapter whose handler never fails has been called
\* exactly once per message, whatever the other adapters' handlers did.
C2_Isolation ==
  /\ run_exc \notin HandlerErrors
  /\ Quiescent => \A b \in early : AlwaysSucceeds(b) => Calls(b) = Expected

\* C3: with run() started and scheduled fairly, every message put is
\* eventually popped and its dispatch cycle runs to its end, unless quit is
\* set.
C3_FanOut ==
  \A k \in 1..MaxAdmit :
    (Len(admitted) >= k /\ pc # "idle") ~> (quit \/ Dispatched(k))

\* C4: add_backend / remove_backend between two handler calls of a cycle
\* leave the registry a set, do not make the cycle fail, and no adapter is
\* called twice for one message.
C4_DynamicRegistration ==
  /\ \A i, j \in Slots : (i # j /\ backends[i] # NoKey) => backends[i] # backends[j]
  /\ run_exc # "RuntimeError"
  /\ \A a \in Adapters : \A i, j \in 1..Len(received[a]) :
        i # j => received[a][i].oid # received[a][j].oid

\* C5: the registry holds at most one adapter per id().
C5_DedupByIdentity ==
  \A a, b \in Keys(backends) : id(a) = id(b) => a = b

\* C6: remove_backend of an adapter that is not registered raises nothing and
\* leaves the registry as it was.
C6_IdempotentRemoval ==
  [][\A a \in Adapters :
       (remove_backend(a) /\ ~set_contains(backends, a))
         => (raised' = NoErr /\ backends' = backends)]_vars

C8_ShutdownDrains == (pc = "done" /\ dequeued >= 1) => dequeued >= quit_mark

\* C9: with quit set and the queue empty, run() reaches its end (unless a
\* handler ends it first) without any further message being put.
C9_Termination ==
  (quit /\ forwarder_queue = <<>> /\ pc \in {"while", "get", "for"})
    ~> (pc \in {"done", "crashed"} \/ forwarder_queue # <<>>)

\* the payload a success / failure hook call stands for
SuccessPayload(request_type, name, response_time, response_length, kwargs) ==
  [request_type |-> request_type, name |-> name, response_time |-> response_time,
   response_length |-> response_length, other |-> kwargs]

FailurePayload(request_type, name, response_time, exception, kwargs) ==
  [request_type |-> request_type, name |-> name, response_time |-> response_time,
   exception |-> exception, other |-> kwargs]

\* the step puts exactly one message of the given kind and payload, and the
\* call returns normally
Admits(kind, payload) ==
  LET m == [type |-> kind, payload |-> payload, oid |-> Len(admitted) + 1]
  IN /\ raised' = NoErr
     /\ forwarder_queue' = Append(forwarder_queue, m)
     /\ admitted' = Append(admitted, m)

\* C10: every call of request_success and of request_failure returns normally
\* and puts one message of its kind carrying the call's arguments.
C10_HookTranslation ==
  [][/\ \A rt \in RequestTypes, n \in Names, t \in ResponseTimes,
          l \in ResponseLengths, k \in Kwargs :
          request_success(rt, n, t, l, k) => Admits("success", SuccessPayload(rt, n, t, l, k))
     /\ \A rt \in RequestTypes, n \in Names, t \in ResponseTimes,
          x \in Exceptions, k \in Kwargs :
          request_failure(rt, n, t, x, k) => Admits("failure", FailurePayload(rt, n, t, x, k))
    ]_vars

\* C11: no handler call on a PrintAdapter raises, for success messages (with
\* response_length) and failure messages (with exception) alike.
C11_PrintNeverFails ==
  \A a \in Adapters : type(a) = "PrintAdapter" =>
    \A i \in 1..Len(received[a]) : received[a][i].exc = NoErr

\* C12: once quit is set, a call of add or request_success is refused with
\* QueueClosed and leaves the queue as it was.
C12_ClosedAfterShutdown ==
  [][quit =>
       /\ \A d \in DirectData :
            add(d) => (raised' = "QueueClosed" /\ forwarder_queue' = forwarder_queue)
       /\ \A rt \in RequestTypes, n \in Names, t \in ResponseTimes,
            l \in ResponseLengths, k \in Kwargs :
            request_success(rt, n, t, l, k)
              => (raised' = "QueueClosed" /\ forwarder_queue' = forwarder_queue)
    ]_vars

\* C13: no handler call on an ElasticSearchAdapter raises into run(): a
\* submission the store rejects or cannot receive is an outcome, not an
\* exception.
C13_IndexingNeverThrows ==
  \A a \in Adapters : type(a) = "ElasticSearchAdapter" =>
    \A i \in 1..Len(received[a]) : received[a][i].exc = NoErr

\* C14: constructing an ElasticSearchAdapter raises AdapterError exactly when
\* verify_connection is true and the probe raises, whatever it raises;
\* otherwise (no probe asked for, or the probe succeeds) it returns normally.
C14_ConstructionFailsIffProbeFails ==
  [][\A v \in BOOLEAN, s \in StoreStates :
       ElasticSearchAdapter_init(v, s)
         => raised' = IF v /\ health(s) # NoErr THEN "AdapterError" ELSE NoErr]_vars

\* a construction has failed
C14_Witness == raised = "AdapterError"

\* C15: a message popped from the queue is never in the queue again, and no
\* adapter is called twice for the same message (so none is re-sent after a
\* handler failed).
C15_AtMostOnce ==
  /\ \A i \in 1..Len(forwarder_queue) : forwarder_queue[i].oid > dequeued
  /\ \A a \in Adapters : \A i, j \in 1..Len(received[a]) :
        (received[a][i].oid = received[a][j].oid) => i = j

\* C16: in every state, whatever the queue holds and wherever run() stands
\* (not started, waiting in get, inside a handler call, ended), a call of add
\* can be taken at once: it does not wait for run() or for an adapter.
C16_EnqueueNeverBlocks ==
  Len(admitted) < MaxAdmit => \A d \in DirectData : ENABLED add(d)

\* a message was put while run() was between two handler calls of a cycle
\* and is waiting in the queue
C16_Witness ==
  /\ pc = "for" /\ si_pos > 0
  /\ forwarder_queue # <<>> /\ forwarder_queue[Len(forwarder_queue)].oid > data.oid
  /\ raised = NoErr

\* a round of the for loop: it yields an adapter, ends the cycle or fails
ForStep == pc = "for" /\ <<pc, si_pos, received, run_exc>>' # <<pc, si_pos, received, run_exc>>

\* C17: a dispatch cycle calls exactly the adapters that were registered when
\* it started: add_backend / remove_backend during the cycle do not make it
\* fail, an adapter it calls was registered at its start, and when it ends
\* every adapter registered at its start has been called with its message.
C17_SnapshotIsolation ==
  [][ForStep =>
       /\ run_exc' # "RuntimeError"
       /\ \A a \in Adapters : received'[a] # received[a] => a \in SnapNow
       /\ pc' = "while" =>
            \A a \in SnapNow : \E i \in 1..Len(received[a]) : received[a][i].oid = data.oid
    ]_vars

\* C18: every handler call of a cycle is handle_failure when the message's
\* type is failure and handle_success when it is success, and an adapter is
\* called through one handler only for one message.
C18_RoutingByKind ==
  \A a \in Adapters : \A i \in 1..Len(received[a]) :
    LET r == received[a][i]
        kind == admitted[r.oid].type
    IN /\ kind \in {"success", "failure"}
       /\ (r.handler = "handle_failure") <=> (kind = "failure")
       /\ (r.handler = "handle_success") <=> (kind = "success")
       /\ \A j \in 1..Len(received[a]) :
            received[a][j].oid = r.oid => received[a][j].handler = r.handler

\* one adapter has been called through handle_success for one message and
\* through handle_failure for another
C18_Witness ==
  \E a \in Adapters : \E i, j \in 1..Len(received[a]) :
    /\ received[a][i].handler = "handle_success"
    /\ received[a][j].handler = "handle_failure"

\* C19: a message popped while no adapter is registered is handed to none,
\* and no message is handed over after its own cycle: every handler call is
\* for the message popped last and goes to an adapter that was registered
\* when that message's cycle started.
C19_NoLateDelivery ==
  [][ForStep =>
       /\ SnapNow = {} => (received' = received /\ pc' = "while")
       /\ \A a \in Adapters : received'[a] # received[a] =>
            /\ Len(received'[a]) = Len(received[a]) + 1
            /\ received'[a][Len(received'[a])].oid = dequeued
            /\ a \in SnapNow
    ]_vars

\* C20: quit, once set, stays set; after it is set run() pops at most one
\* more message, and only if it was waiting in get at that moment; a run()
\* started after quit was set pops none.
C20_ShutdownCutsShort ==
  /\ [](quit => /\ quit_at.late <= 1
                /\ quit_at.late = 1 => quit_at.pc = "get"
                /\ quit_at.pc = "idle" => dequeued = 0)
  /\ [][quit => quit']_vars

\* run() was waiting in get when quit was set, popped the message put after
\* that and came to its end
C20_Witness == quit /\ quit_at.late = 1 /\ pc = "done"

\* run() was started after quit was set and came to its end at once
C20_WitnessLateStart ==
  quit /\ quit_at.pc = "idle" /\ pc = "done" /\ forwarder_queue # <<>>

====
